---- MODULE Spec2Model ----
(***************************************************************************)
(* Model of the numerical core of GoTrain:                                 *)
(*   - InterceptLines, the first crossing of two sampled curves;           *)
(*   - Brent, the bracketed root finder;                                   *)
(*   - Linspace, the evenly spaced samples;                                *)
(*   - Layer.WaveSpeed and SoilDispersion (package soil_dispersion);       *)
(*   - RailTrackDispersion (package track_dispersion).                     *)
(* Each variable holds the state of one call of one of these functions.    *)
(*                                                                         *)
(* float64 values are modelled as exact rationals <<n, d>> (d > 0, lowest  *)
(* terms) together with the IEEE special values NaN == <<0, 0>> and        *)
(* +-Inf == <<+-1, 0>>.  Comparisons follow IEEE: every ordered comparison *)
(* with a NaN operand is false, and != is true.  Rounding is not           *)
(* modelled: arithmetic is exact.                                          *)
(***************************************************************************)
EXTENDS Integers, Sequences, FiniteSets, TLC

VARIABLES il, br, lin, layer, sd, rt, rn

vars == <<il, br, lin, layer, sd, rt, rn>>

\* a function that is not being called
LinspaceIdle == [pc |-> "idle"]

LayerIdle == [pc |-> "idle"]

SoilIdle == [pc |-> "idle"]

TrackIdle == [pc |-> "idle"]

(***************************************************************************)
(* Bounds of the model.                                                    *)
(***************************************************************************)
\* longest sampled curve handed to InterceptLines
MaxLen == 3
\* y1 samples are drawn from 0..YMax and NaN
YMax == 3
\* a y2 sample is Y2Lo or NaN
Y2Lo == 1
\* x is evenly spaced (a Linspace output) from XStart with gap +-XGap
XStart == 1
XGap == 2
\* Brent is called with a in 0..BrentAMax and b in 0..BrentBMax or NaN
BrentAMax == 1
BrentBMax == 2
\* f takes the values -FMax..FMax and NaN
FMax == 3
\* tol is one of 0/TolDen .. TolMax/TolDen
TolMax == 1
TolDen == 1
\* machine epsilon is modelled as 1/EpsDen
EpsDen == 8
\* Linspace is called with start and end in -LinMax..LinMax and a count n
\* in -LinNeg..LinN
LinMax == 2
LinN == 4
LinNeg == 2
\* a layer has Poisson ratio k/NuDen with k in -NuMax..NuMax, Young's
\* modulus in 0..EMax and density in 0..RhoMax
NuMax == 5
NuDen == 4
EMax == 2
RhoMax == 2
\* a soil profile has at most MaxLayers layers, each with shear wave speed
\* SpeedLo or SpeedHi; SoilDispersion gets the frequencies 1..n for an n
\* in 0..MaxOmega and scans a grid of GridN velocities
MaxLayers == 2
SpeedLo == 1
SpeedHi == 2
MaxOmega == 2
GridN == 3
\* RailTrackDispersion searches the wavenumbers WaveLo..WaveHi where the
\* code searches 0.001..1000
WaveLo == 1
WaveHi == 4
\* Run is called with numWorkers in -NegWorkers..MaxWorkers
NegWorkers == 1
MaxWorkers == 2
\* the walk discovers 0..MaxFiles .yaml files
MaxFiles == 3
\* capacity of the jobs channel (100 in the code, line 87)
JobCap == 2

(***************************************************************************)
(* float64 arithmetic.                                                     *)
(***************************************************************************)
NaN == <<0, 0>>

PosInf == <<1, 0>>

NegInf == <<-1, 0>>

Abs(n) == IF n < 0 THEN -n ELSE n

Sign(n) == IF n < 0 THEN -1 ELSE IF n > 0 THEN 1 ELSE 0

RECURSIVE GCD(_, _)
GCD(m, n) == IF n = 0 THEN m ELSE GCD(n, m % n)

\* the float64 with value n/d; x/0 is +-Inf and 0/0 is NaN
Rat(n, d) ==
    IF d = 0 THEN <<Sign(n), 0>>
    ELSE LET g == GCD(Abs(n), Abs(d))
         IN  <<(Sign(d) * n) \div g, Abs(d) \div g>>

Num(k) == <<k, 1>>

Zero == Num(0)

IsNaN(p) == p = NaN

IsFinite(p) == p[2] # 0

\* + - * / : exact on finite operands, NaN as soon as an operand is NaN
FAdd(p, q) ==
    IF IsFinite(p) /\ IsFinite(q) THEN Rat(p[1] * q[2] + q[1] * p[2], p[2] * q[2])
    ELSE IF IsNaN(p) \/ IsNaN(q) THEN NaN
    ELSE IF IsFinite(p) THEN q
    ELSE IF IsFinite(q) \/ p = q THEN p
    ELSE NaN

FNeg(p) == <<-p[1], p[2]>>

FSub(p, q) == FAdd(p, FNeg(q))

FMul(p, q) ==
    IF IsFinite(p) /\ IsFinite(q) THEN Rat(p[1] * q[1], p[2] * q[2])
    ELSE IF IsNaN(p) \/ IsNaN(q) THEN NaN
    ELSE <<Sign(p[1]) * Sign(q[1]), 0>>

FDiv(p, q) ==
    IF IsFinite(p) /\ IsFinite(q) THEN Rat(p[1] * q[2], p[2] * q[1])
    ELSE IF IsNaN(p) \/ IsNaN(q) THEN NaN
    ELSE IF IsFinite(q) THEN <<Sign(p[1]) * (IF q[1] < 0 THEN -1 ELSE 1), 0>>
    ELSE IF IsFinite(p) THEN Zero
    ELSE NaN

\* math.Abs
FAbs(p) == <<Abs(p[1]), p[2]>>

\* the position of a non-NaN value on the extended real line, as a pair
\* compared by cross-multiplication; infinities compare by sign
FLt(p, q) ==
    /\ ~IsNaN(p)
    /\ ~IsNaN(q)
    /\ IF IsFinite(p) /\ IsFinite(q) THEN p[1] * q[2] < q[1] * p[2]
       ELSE IF IsFinite(p) THEN q = PosInf
       ELSE IF IsFinite(q) THEN p = NegInf
       ELSE p = NegInf /\ q = PosInf

FEq(p, q) == ~IsNaN(p) /\ ~IsNaN(q) /\ p = q

FNe(p, q) == ~FEq(p, q)

FLe(p, q) == FLt(p, q) \/ FEq(p, q)

FGt(p, q) == FLt(q, p)

FGe(p, q) == FLe(q, p)

(***************************************************************************)
(* InterceptLines(x, y1, y2).                                              *)
(***************************************************************************)
ErrTooShort == "input arrays must have at least two elements"

ErrLength == "all input arrays must have the same length"

ErrParallel == "input arrays are parallel"

ErrNoIntersection == "no intersection found"

NoErr == "nil"

Y1Vals == {Num(k) : k \in 0..YMax} \cup {NaN}

Y2Vals == {Num(Y2Lo), NaN}

\* an evenly spaced frequency axis of n samples
XAxis(n, g) == [k \in 1..n |-> Num(XStart + (k - 1) * g)]

\* the arguments of a call
ILArgs(x, y1, y2) == [x |-> x, y1 |-> y1, y2 |-> y2]

\* the state of one call: its arguments, its locals, and what it returned
ILCall(c) ==
    [pc |-> "call", x |-> c.x, y1 |-> c.y1, y2 |-> c.y2,
     i |-> 0, hasNonZeroDiff |-> FALSE,
     interceptX |-> Zero, interceptY |-> Zero, err |-> NoErr]

ILIdle == [ILCall([x |-> <<>>, y1 |-> <<>>, y2 |-> <<>>]) EXCEPT !.pc = "idle"]

\* Run is not being called: no worker, no reporter, nothing on the channel
RunnerIdle ==
    [pc |-> "idle", numWorkers |-> 0, yamlFiles |-> 0, walkErr |-> FALSE,
     jobs |-> <<>>, jobsClosed |-> 0, sent |-> 0, worker |-> <<>>, wg |-> 0,
     processedCount |-> 0, reporter |-> "none", shown |-> 0, doneClosed |-> 0,
     received |-> <<>>, failed |-> {}, err |-> NoErr]

ILReturn(s, rx, ry, e) ==
    [s EXCEPT !.pc = "done", !.interceptX = rx, !.interceptY = ry, !.err = e]

\* a Go slice is indexed from 0
At(sq, k) == sq[k + 1]

diff1(s) == FSub(At(s.y1, s.i), At(s.y2, s.i))

diff2(s) == FSub(At(s.y1, s.i - 1), At(s.y2, s.i - 1))

\* mutant: only x is checked for length
TooShortXOnly(s) == Len(s.x) < 2

\* lines 206-208
TooShort(s) == Len(s.x) < 2 \/ Len(s.y1) < 2 \/ Len(s.y2) < 2

\* lines 211-213
LengthMismatch(s) == Len(s.y1) # Len(s.x) \/ Len(s.y2) # Len(s.x)

\* mutant: a product of exactly 0 is not a crossing
CrossingStrict(s) == FLt(FMul(diff1(s), diff2(s)), Zero)

\* mutant: an undefined difference is read as 0
NaNAsZero(p) == IF IsNaN(p) THEN Zero ELSE p

CrossingNaNAsZero(s) == FLe(FMul(NaNAsZero(diff1(s)), NaNAsZero(diff2(s))), Zero)

\* line 230
Crossing(s) == FLe(FMul(diff1(s), diff2(s)), Zero)

\* mutant: the flag records a non-zero difference, not a changing one
NoteDiffNonZero(s) == s.hasNonZeroDiff \/ FNe(diff1(s), Zero)

\* lines 225-227
NoteDiff(s) == s.hasNonZeroDiff \/ FNe(diff1(s), diff2(s))

\* mutant: the fraction is measured from the wrong end of the segment
FractionSwapped(s) == FDiv(FAbs(diff1(s)), FAdd(FAbs(diff1(s)), FAbs(diff2(s))))

\* line 241
Fraction(s) == FDiv(FAbs(diff2(s)), FAdd(FAbs(diff1(s)), FAbs(diff2(s))))

\* lines 242-243
Interpolate(lo, hi, fr) == FAdd(lo, FMul(fr, FSub(hi, lo)))

\* mutant: the previous sample is tested for an exact match first
CrossingPointPrevFirst(s) ==
    IF FEq(diff2(s), Zero) THEN <<At(s.x, s.i - 1), At(s.y1, s.i - 1)>>
    ELSE IF FEq(diff1(s), Zero) THEN <<At(s.x, s.i), At(s.y1, s.i)>>
    ELSE <<Interpolate(At(s.x, s.i - 1), At(s.x, s.i), Fraction(s)),
           Interpolate(At(s.y1, s.i - 1), At(s.y1, s.i), Fraction(s))>>

\* lines 232-245: the point returned for the crossing in segment i
CrossingPoint(s) ==
    IF FEq(diff1(s), Zero) THEN <<At(s.x, s.i), At(s.y1, s.i)>>
    ELSE IF FEq(diff2(s), Zero) THEN <<At(s.x, s.i - 1), At(s.y1, s.i - 1)>>
    ELSE <<Interpolate(At(s.x, s.i - 1), At(s.x, s.i), Fraction(s)),
           Interpolate(At(s.y1, s.i - 1), At(s.y1, s.i), Fraction(s))>>

\* lines 250-254
ScanFailure(s) == IF ~s.hasNonZeroDiff THEN ErrParallel ELSE ErrNoIntersection

ILRejectShort ==
    /\ il.pc = "call"
    /\ TooShort(il)
    /\ il' = ILReturn(il, Zero, Zero, ErrTooShort)
    /\ UNCHANGED <<br, lin, layer, sd, rt, rn>>

ILRejectLength ==
    /\ il.pc = "call"
    /\ ~TooShort(il)
    /\ LengthMismatch(il)
    /\ il' = ILReturn(il, Zero, Zero, ErrLength)
    /\ UNCHANGED <<br, lin, layer, sd, rt, rn>>

ILEnterScan ==
    /\ il.pc = "call"
    /\ ~TooShort(il)
    /\ ~LengthMismatch(il)
    /\ il' = [il EXCEPT !.pc = "scan", !.i = 1]
    /\ UNCHANGED <<br, lin, layer, sd, rt, rn>>

\* one pass of the loop body that finds the crossing and returns
ILScanHit ==
    /\ il.pc = "scan"
    /\ il.i < Len(il.x)
    /\ Crossing(il)
    /\ il' = ILReturn([il EXCEPT !.hasNonZeroDiff = NoteDiff(il)],
                      CrossingPoint(il)[1], CrossingPoint(il)[2], NoErr)
    /\ UNCHANGED <<br, lin, layer, sd, rt, rn>>

\* one pass of the loop body that finds nothing and moves on
ILScanMiss ==
    /\ il.pc = "scan"
    /\ il.i < Len(il.x)
    /\ ~Crossing(il)
    /\ il' = [il EXCEPT !.hasNonZeroDiff = NoteDiff(il), !.i = il.i + 1]
    /\ UNCHANGED <<br, lin, layer, sd, rt, rn>>

ILScanEnd ==
    /\ il.pc = "scan"
    /\ il.i >= Len(il.x)
    /\ il' = ILReturn(il, Zero, Zero, ScanFailure(il))
    /\ UNCHANGED <<br, lin, layer, sd, rt, rn>>

ILNext ==
    \/ ILRejectShort
    \/ ILRejectLength
    \/ ILEnterScan
    \/ ILScanHit
    \/ ILScanMiss
    \/ ILScanEnd

(***************************************************************************)
(* Brent(a, b, tol, f).                                                    *)
(*                                                                         *)
(* f is an arbitrary function: each evaluation draws its value from FVals, *)
(* and fseen records the points already evaluated so that a second         *)
(* evaluation at the same point returns the same value.  f(NaN) is NaN.    *)
(***************************************************************************)
ErrNotBracketed == "root not bracketed: f(a) and f(b) must have opposite signs"

ErrMaxIterations == "max iterations 1000 reached"

\* line 37
max_nb_iterations == 1000

\* line 39: math.Nextafter(1.0, 2.0) - 1.0
eps == Rat(1, EpsDen)

FVals == {Num(k) : k \in (-FMax)..FMax} \cup {NaN}

TolVals == {Rat(k, TolDen) : k \in 0..TolMax}

BrentIdle == [pc |-> "idle"]

\* the state of one call: the arguments (a0 and b0 keep the bounds as
\* passed, a and b are the parameters the code goes on to overwrite), the
\* locals, and what it returned
BrentCall(a, b, tol) ==
    [pc |-> "call", a0 |-> a, b0 |-> b, a |-> a, b |-> b, tol |-> tol,
     fa |-> NaN, fb |-> NaN, c |-> NaN, fc |-> NaN, d |-> NaN, e |-> NaN,
     iter |-> 0, fseen |-> {}, root |-> Zero, err |-> NoErr]

BrentReturn(s, x, err) == [s EXCEPT !.pc = "done", !.root = x, !.err = err]

\* v may be the value of f at x
FValueAt(s, x, v) ==
    /\ IsNaN(x) => IsNaN(v)
    /\ \A pt \in s.fseen : pt[1] = x => pt[2] = v

\* lines 40-42
ClampTol(tol) == IF FLt(tol, eps) THEN eps ELSE tol

\* lines 45-46: the call with tol clamped and f evaluated at both bounds
Evaluated(s, va, vb) ==
    [s EXCEPT !.tol = ClampTol(s.tol), !.fa = va, !.fb = vb,
              !.fseen = {<<s.a, va>>, <<s.b, vb>>}]

\* mutant: the comparison is inverted
NotBracketedInverted(s) == FLe(FMul(s.fa, s.fb), Zero)

\* line 49
NotBracketed(s) == FGe(FMul(s.fa, s.fb), Zero)

\* lines 62-71
EnterLoop(s) ==
    LET swap == FLt(FAbs(s.fa), FAbs(s.fb))
        a == IF swap THEN s.b ELSE s.a
        b == IF swap THEN s.a ELSE s.b
        fa == IF swap THEN s.fb ELSE s.fa
        fb == IF swap THEN s.fa ELSE s.fb
    IN  [s EXCEPT !.pc = "loop", !.a = a, !.b = b, !.fa = fa, !.fb = fb,
                  !.c = a, !.fc = fa, !.d = FSub(b, a), !.e = FSub(b, a),
                  !.iter = 0]

\* line 76
Delta(s) == FAdd(FMul(FMul(Num(2), eps), FAbs(s.b)), s.tol)

\* line 77
Mid(s) == FMul(Rat(1, 2), FSub(s.c, s.b))

\* mutant: the size of the half bracket is taken without math.Abs
ConvergedSigned(s) == FLe(Mid(s), Delta(s)) \/ FEq(s.fb, Zero)

\* line 80
Converged(s) == FLe(FAbs(Mid(s)), Delta(s)) \/ FEq(s.fb, Zero)

\* line 88
TryInterpolation(s) == FGe(FAbs(s.e), Delta(s)) /\ FGt(FAbs(s.fa), FAbs(s.fb))

\* lines 90-103: <<p, q>> of the secant or inverse quadratic step
RawPQ(s) ==
    LET sv == FDiv(s.fb, s.fa)
    IN  IF FEq(s.a, s.c)
        THEN <<FMul(FMul(Num(2), Mid(s)), sv), FSub(Num(1), sv)>>
        ELSE LET q == FDiv(s.fa, s.fc)
                 r == FDiv(s.fb, s.fc)
             IN  <<FMul(sv, FSub(FMul(FMul(FMul(Num(2), Mid(s)), q), FSub(q, r)),
                                 FMul(FSub(s.b, s.a), FSub(r, Num(1))))),
                   FMul(FMul(FSub(q, Num(1)), FSub(r, Num(1))), FSub(sv, Num(1)))>>

\* lines 106-110
SignedPQ(pq) ==
    IF FGt(pq[1], Zero) THEN <<pq[1], FNeg(pq[2])>> ELSE <<FNeg(pq[1]), pq[2]>>

\* line 114
Accept(s, pq) ==
    /\ FLt(FMul(Num(2), pq[1]),
           FSub(FMul(FMul(Num(3), Mid(s)), pq[2]), FAbs(FMul(Delta(s), pq[2]))))
    /\ FLt(pq[1], FAbs(FMul(FMul(Rat(1, 2), s.e), pq[2])))

\* lines 85-125: <<d, e>> of the step chosen
StepDE(s) ==
    IF TryInterpolation(s) /\ Accept(s, SignedPQ(RawPQ(s)))
    THEN <<FDiv(SignedPQ(RawPQ(s))[1], SignedPQ(RawPQ(s))[2]), s.d>>
    ELSE <<Mid(s), Mid(s)>>

\* mutant: the minimum step is taken away from the bracket point
NewBWrongWay(s, d) ==
    IF FGt(FAbs(d), Delta(s)) THEN FAdd(s.b, d)
    ELSE IF FGt(Mid(s), Zero) THEN FSub(s.b, Delta(s))
    ELSE FAdd(s.b, Delta(s))

\* lines 132-138
NewB(s, d) ==
    IF FGt(FAbs(d), Delta(s)) THEN FAdd(s.b, d)
    ELSE IF FGt(Mid(s), Zero) THEN FAdd(s.b, Delta(s))
    ELSE FSub(s.b, Delta(s))

\* mutant: c is rebound when the signs agree
RebindSameSign(fa, fb) == FGt(FMul(fa, fb), Zero)

\* line 144
Rebind(fa, fb) == FLt(FMul(fa, fb), Zero)

\* lines 84-147: one pass of the loop body that does not return, f(b) = v
Iterate(s, v) ==
    LET de == StepDE(s)
        nb == NewB(s, de[1])
    IN  [s EXCEPT !.d = de[1], !.e = de[2], !.a = s.b, !.fa = s.fb,
                  !.b = nb, !.fb = v,
                  !.c = IF Rebind(s.fb, v) THEN s.b ELSE s.c,
                  !.fc = IF Rebind(s.fb, v) THEN s.fb ELSE s.fc,
                  !.fseen = s.fseen \cup {<<nb, v>>},
                  !.iter = s.iter + 1]

\* mutant: the loop runs once more
LoopRunsOnceMore(s) == s.iter <= max_nb_iterations

\* line 74
LoopRuns(s) == s.iter < max_nb_iterations

BrentNotBracketed ==
    /\ br.pc = "call"
    /\ \E va, vb \in FVals :
        /\ FValueAt(br, br.a, va)
        /\ FValueAt([br EXCEPT !.fseen = {<<br.a, va>>}], br.b, vb)
        /\ NotBracketed(Evaluated(br, va, vb))
        /\ br' = BrentReturn(Evaluated(br, va, vb), Zero, ErrNotBracketed)
    /\ UNCHANGED <<il, lin, layer, sd, rt, rn>>

BrentEndpointA ==
    /\ br.pc = "call"
    /\ \E va, vb \in FVals :
        /\ FValueAt(br, br.a, va)
        /\ FValueAt([br EXCEPT !.fseen = {<<br.a, va>>}], br.b, vb)
        /\ ~NotBracketed(Evaluated(br, va, vb))
        /\ FEq(va, Zero)
        /\ br' = BrentReturn(Evaluated(br, va, vb), br.a, NoErr)
    /\ UNCHANGED <<il, lin, layer, sd, rt, rn>>

BrentEndpointB ==
    /\ br.pc = "call"
    /\ \E va, vb \in FVals :
        /\ FValueAt(br, br.a, va)
        /\ FValueAt([br EXCEPT !.fseen = {<<br.a, va>>}], br.b, vb)
        /\ ~NotBracketed(Evaluated(br, va, vb))
        /\ ~FEq(va, Zero)
        /\ FEq(vb, Zero)
        /\ br' = BrentReturn(Evaluated(br, va, vb), br.b, NoErr)
    /\ UNCHANGED <<il, lin, layer, sd, rt, rn>>

BrentEnterLoop ==
    /\ br.pc = "call"
    /\ \E va, vb \in FVals :
        /\ FValueAt(br, br.a, va)
        /\ FValueAt([br EXCEPT !.fseen = {<<br.a, va>>}], br.b, vb)
        /\ ~NotBracketed(Evaluated(br, va, vb))
        /\ ~FEq(va, Zero)
        /\ ~FEq(vb, Zero)
        /\ br' = EnterLoop(Evaluated(br, va, vb))
    /\ UNCHANGED <<il, lin, layer, sd, rt, rn>>

BrentConverged ==
    /\ br.pc = "loop"
    /\ LoopRuns(br)
    /\ Converged(br)
    /\ br' = BrentReturn(br, br.b, NoErr)
    /\ UNCHANGED <<il, lin, layer, sd, rt, rn>>

BrentIterate ==
    /\ br.pc = "loop"
    /\ LoopRuns(br)
    /\ ~Converged(br)
    /\ \E v \in FVals :
        /\ FValueAt(br, NewB(br, StepDE(br)[1]), v)
        /\ br' = Iterate(br, v)
    /\ UNCHANGED <<il, lin, layer, sd, rt, rn>>

BrentMaxIterations ==
    /\ br.pc = "loop"
    /\ ~LoopRuns(br)
    /\ br' = BrentReturn(br, Zero, ErrMaxIterations)
    /\ UNCHANGED <<il, lin, layer, sd, rt, rn>>

BrentNext ==
    \/ BrentNotBracketed
    \/ BrentEndpointA
    \/ BrentEndpointB
    \/ BrentEnterLoop
    \/ BrentConverged
    \/ BrentIterate
    \/ BrentMaxIterations

InitBrent ==
    /\ il = ILIdle
    /\ lin = LinspaceIdle
    /\ layer = LayerIdle
    /\ sd = SoilIdle
    /\ rt = TrackIdle
    /\ rn = RunnerIdle
    /\ \E a \in {Num(k) : k \in 0..BrentAMax},
          b \in {Num(k) : k \in 0..BrentBMax} \cup {NaN},
          tol \in TolVals :
        br = BrentCall(a, b, tol)

SpecBrent == InitBrent /\ [][BrentNext]_vars

\* curves of one common length, every sample combination
InitILCurves ==
    \E n \in 2..MaxLen, g \in {-XGap, XGap} :
        \E s1 \in [1..n -> Y1Vals], s2 \in [1..n -> Y2Vals] :
            il = ILCall(ILArgs(XAxis(n, g), s1, s2))

\* the three lengths vary independently; the contents are one fixed sample
InitILLengths ==
    \E n \in 0..MaxLen, n1 \in 0..MaxLen, n2 \in 0..MaxLen :
        il = ILCall(ILArgs(XAxis(n, XGap), [k \in 1..n1 |-> Num(0)],
                           [k \in 1..n2 |-> Num(Y2Lo)]))

InitIL ==
    /\ InitILCurves \/ InitILLengths
    /\ br = BrentIdle
    /\ lin = LinspaceIdle
    /\ layer = LayerIdle
    /\ sd = SoilIdle
    /\ rt = TrackIdle
    /\ rn = RunnerIdle

SpecIL == InitIL /\ [][ILNext]_vars

(***************************************************************************)
(* Linspace(start, end, n).                                                *)
(***************************************************************************)
\* mutant: the interval is divided into n parts
LinspaceStepByN(start, end, n) == FDiv(FSub(end, start), Num(n))

\* line 175
LinspaceStep(start, end, n) == FDiv(FSub(end, start), Num(n - 1))

\* mutant: the samples always step upwards
LinspaceSampleUp(start, step, i) == FAdd(start, FMul(Num(i), FAbs(step)))

\* line 178
LinspaceSample(start, step, i) == FAdd(start, FMul(Num(i), step))

\* mutant: the single sample is the end value
LinspaceSingleEnd(start, end) == <<end>>

\* lines 170-172
LinspaceSingle(start, end) == <<start>>

\* lines 165-187; result[i] of the code is At(result, i)
Linspace(start, end, n) ==
    IF n <= 0 THEN <<>>
    ELSE IF n = 1 THEN LinspaceSingle(start, end)
    ELSE LET step == LinspaceStep(start, end, n)
         IN  [k \in 1..n |->
                 IF k = n THEN end ELSE LinspaceSample(start, step, k - 1)]

LinVals == {Num(k) : k \in (-LinMax)..LinMax}

LinspaceCall(start, end, n) ==
    [pc |-> "call", start |-> start, end |-> end, n |-> n, result |-> <<>>]

LinspaceReturn ==
    /\ lin.pc = "call"
    /\ lin' = [lin EXCEPT !.pc = "done",
                          !.result = Linspace(lin.start, lin.end, lin.n)]
    /\ UNCHANGED <<il, br, layer, sd, rt, rn>>

LinspaceNext == LinspaceReturn

InitLinspace ==
    /\ il = ILIdle
    /\ br = BrentIdle
    /\ layer = LayerIdle
    /\ sd = SoilIdle
    /\ rt = TrackIdle
    /\ rn = RunnerIdle
    /\ \E start \in LinVals, end \in LinVals, n \in (-LinNeg)..LinN :
        lin = LinspaceCall(start, end, n)

SpecLinspace == InitLinspace /\ [][LinspaceNext]_vars

(***************************************************************************)
(* Layer.WaveSpeed (package soil_dispersion).                              *)
(*                                                                         *)
(* A square root is in general not rational.  The value math.Sqrt returns  *)
(* is kept as [rad |-> q]: the non-negative number whose square is q, NaN  *)
(* when q is negative or NaN.  Such values are squared and compared        *)
(* through q.                                                              *)
(***************************************************************************)
\* math.Sqrt
Sqrt(q) == [rad |-> IF FLt(q, Zero) THEN NaN ELSE q]

\* r*r for a square root r
Squared(r) == r.rad

\* r < s and r <= s for square roots r and s
SqrtLt(r, s) == FLt(r.rad, s.rad)

SqrtLe(r, s) == FLe(r.rad, s.rad)

\* mutant: the factor 2 of the shear modulus is dropped
ShearModulusNoHalf(E, nu) == FDiv(E, FAdd(Num(1), nu))

\* line 255
ShearModulus(E, nu) == FDiv(E, FMul(Num(2), FAdd(Num(1), nu)))

\* line 256
PModulus(E, nu) ==
    FDiv(FMul(E, FSub(Num(1), nu)),
         FMul(FAdd(Num(1), nu), FSub(Num(1), FMul(Num(2), nu))))

\* a Layer as constructed, its wave speeds not yet derived
LayerCall(rho, E, nu) ==
    [pc |-> "call", Density |-> rho, YoungsModulus |-> E, PoissonRatio |-> nu,
     CompressionalWaveSpeed |-> Sqrt(Zero), ShearWaveSpeed |-> Sqrt(Zero)]

\* lines 254-259
WaveSpeed ==
    /\ layer.pc = "call"
    /\ layer' =
        [layer EXCEPT
            !.pc = "done",
            !.CompressionalWaveSpeed =
                Sqrt(FDiv(PModulus(layer.YoungsModulus, layer.PoissonRatio),
                          layer.Density)),
            !.ShearWaveSpeed =
                Sqrt(FDiv(ShearModulus(layer.YoungsModulus, layer.PoissonRatio),
                          layer.Density))]
    /\ UNCHANGED <<il, br, lin, sd, rt, rn>>

LayerNext == WaveSpeed

InitLayer ==
    /\ il = ILIdle
    /\ br = BrentIdle
    /\ lin = LinspaceIdle
    /\ sd = SoilIdle
    /\ rt = TrackIdle
    /\ rn = RunnerIdle
    /\ \E rho \in 0..RhoMax, E \in 0..EMax, k \in (-NuMax)..NuMax :
        layer = LayerCall(Num(rho), Num(E), Rat(k, NuDen))

SpecLayer == InitLayer /\ [][LayerNext]_vars

(***************************************************************************)
(* SoilDispersion(layers, omega) (package soil_dispersion).                *)
(*                                                                         *)
(* dispersionFastDelta is an arbitrary function of (layers, omega, c):     *)
(* each evaluation draws its value from DVals, and det records the values  *)
(* drawn for the current frequency, det[j] at c_list[j].  No pair          *)
(* (omega, c) is evaluated twice.  The grid has GridN points where the     *)
(* code has 10000.                                                         *)
(***************************************************************************)
\* a value of dispersionFastDelta: negative, zero, positive or NaN
DVals == {Num(-1), Zero, Num(1), NaN}

ShearSpeeds == {Num(SpeedLo), Num(SpeedHi)}

\* lines 280-289
RECURSIVE min_shear_wave_speed(_)
min_shear_wave_speed(layers) ==
    IF layers = <<>> THEN PosInf
    ELSE LET m == min_shear_wave_speed(SubSeq(layers, 1, Len(layers) - 1))
             s == layers[Len(layers)].ShearWaveSpeed
         IN  IF FLt(s, m) THEN s ELSE m

RECURSIVE max_shear_wave_speed(_)
max_shear_wave_speed(layers) ==
    IF layers = <<>> THEN NegInf
    ELSE LET m == max_shear_wave_speed(SubSeq(layers, 1, Len(layers) - 1))
             s == layers[Len(layers)].ShearWaveSpeed
         IN  IF FGt(s, m) THEN s ELSE m

\* line 291
c_min(layers) == FMul(Rat(3, 5), min_shear_wave_speed(layers))

\* line 292
c_max(layers) == FMul(Rat(8, 5), max_shear_wave_speed(layers))

\* line 293
c_list(layers) == Linspace(c_min(layers), c_max(layers), GridN)

\* mutant: an entry starts as the number 0
SoilUndefinedZero == Zero

\* line 299
SoilUndefined == NaN

\* mutant: a zero product counts as a sign change
SignChangeOrZero(d_1, d_2) == FLe(FMul(d_1, d_2), Zero)

\* line 305
SignChange(d_1, d_2) == FLt(FMul(d_1, d_2), Zero)

\* mutant: the two grid velocities are added and not halved
BracketSum(cs, j) == FAdd(At(cs, j - 1), At(cs, j))

\* line 307
BracketMidpoint(cs, j) == FDiv(FAdd(At(cs, j - 1), At(cs, j)), Num(2))

SoilCall(layers, omega) ==
    [pc |-> "call", layers |-> layers, omega |-> omega, c_list |-> <<>>,
     phase_speed |-> <<>>, i |-> 0, j |-> 0, d_1 |-> Zero, det |-> <<>>]

\* lines 279-295
SoilEnter ==
    /\ sd.pc = "call"
    /\ sd' = [sd EXCEPT !.pc = "omega", !.c_list = c_list(sd.layers),
                        !.phase_speed = [k \in 1..Len(sd.omega) |-> Zero],
                        !.i = 0]
    /\ UNCHANGED <<il, br, lin, layer, rt, rn>>

\* lines 297-301 with line 337: layers[0] of an empty profile
SoilPanic ==
    /\ sd.pc = "omega"
    /\ sd.i < Len(sd.omega)
    /\ sd.layers = <<>>
    /\ sd' = [sd EXCEPT !.pc = "panic",
                        !.phase_speed[sd.i + 1] = SoilUndefined]
    /\ UNCHANGED <<il, br, lin, layer, rt, rn>>

\* lines 297-301
SoilBeginScan ==
    /\ sd.pc = "omega"
    /\ sd.i < Len(sd.omega)
    /\ sd.layers # <<>>
    /\ \E d \in DVals :
        sd' = [sd EXCEPT !.pc = "scan", !.phase_speed[sd.i + 1] = SoilUndefined,
                        !.d_1 = d, !.det = <<d>>, !.j = 1]
    /\ UNCHANGED <<il, br, lin, layer, rt, rn>>

\* lines 303-310
SoilScanFound ==
    /\ sd.pc = "scan"
    /\ sd.j < Len(sd.c_list)
    /\ \E d_2 \in DVals :
        /\ SignChange(sd.d_1, d_2)
        /\ sd' = [sd EXCEPT !.pc = "omega",
                            !.phase_speed[sd.i + 1] =
                                BracketMidpoint(sd.c_list, sd.j),
                            !.det = Append(sd.det, d_2), !.i = sd.i + 1]
    /\ UNCHANGED <<il, br, lin, layer, rt, rn>>

\* lines 303-312
SoilScanNext ==
    /\ sd.pc = "scan"
    /\ sd.j < Len(sd.c_list)
    /\ \E d_2 \in DVals :
        /\ ~SignChange(sd.d_1, d_2)
        /\ sd' = [sd EXCEPT !.d_1 = d_2, !.det = Append(sd.det, d_2),
                            !.j = sd.j + 1]
    /\ UNCHANGED <<il, br, lin, layer, rt, rn>>

\* lines 303, 313
SoilScanEnd ==
    /\ sd.pc = "scan"
    /\ sd.j >= Len(sd.c_list)
    /\ sd' = [sd EXCEPT !.pc = "omega", !.i = sd.i + 1]
    /\ UNCHANGED <<il, br, lin, layer, rt, rn>>

\* lines 297, 315
SoilReturn ==
    /\ sd.pc = "omega"
    /\ sd.i >= Len(sd.omega)
    /\ sd' = [sd EXCEPT !.pc = "done"]
    /\ UNCHANGED <<il, br, lin, layer, rt, rn>>

SoilNext ==
    \/ SoilEnter
    \/ SoilPanic
    \/ SoilBeginScan
    \/ SoilScanFound
    \/ SoilScanNext
    \/ SoilScanEnd
    \/ SoilReturn

InitSoil ==
    /\ il = ILIdle
    /\ br = BrentIdle
    /\ lin = LinspaceIdle
    /\ layer = LayerIdle
    /\ rt = TrackIdle
    /\ rn = RunnerIdle
    /\ \E nl \in 0..MaxLayers, n \in 0..MaxOmega :
        \E speeds \in [1..nl -> ShearSpeeds] :
            sd = SoilCall([k \in 1..nl |-> [ShearWaveSpeed |-> speeds[k]]],
                          Linspace(Num(1), Num(n), n))

SpecSoil == InitSoil /\ [][SoilNext]_vars

(***************************************************************************)
(* RailTrackDispersion(parameters, omega) (package track_dispersion).      *)
(*                                                                         *)
(* parameters.CalculateStiffness is an arbitrary function, so each call of *)
(* Brent may return whatever Brent returns for some f with values in       *)
(* FVals: BrentOutcomes is Brent as a relation, every <<root, err>> it can *)
(* return for its arguments.  calls records what it returned for each      *)
(* frequency.                                                              *)
(***************************************************************************)
\* math_utils.go lines 74-150: what the loop can return from state s
RECURSIVE BrentLoopOutcomes(_)
BrentLoopOutcomes(s) ==
    IF ~LoopRuns(s) THEN {<<Zero, ErrMaxIterations>>}
    ELSE IF Converged(s) THEN {<<s.b, NoErr>>}
    ELSE UNION {BrentLoopOutcomes(Iterate(s, v)) :
                  v \in {w \in FVals : FValueAt(s, NewB(s, StepDE(s)[1]), w)}}

\* math_utils.go lines 35-151
BrentOutcomes(a, b, tol) ==
    UNION {LET s == Evaluated(BrentCall(a, b, tol), va, vb)
           IN  IF NotBracketed(s) THEN {<<Zero, ErrNotBracketed>>}
               ELSE IF FEq(va, Zero) THEN {<<a, NoErr>>}
               ELSE IF FEq(vb, Zero) THEN {<<b, NoErr>>}
               ELSE BrentLoopOutcomes(EnterLoop(s)) :
           va \in FVals, vb \in FVals}

\* line 77
ini_wave_number == Num(WaveLo)

\* line 78
end_wave_number == Num(WaveHi)

\* line 86: the tolerance 1e-12, the smallest the model has
wave_number_tol == eps

\* line 86
TrackBrentOutcomes ==
    BrentOutcomes(ini_wave_number, end_wave_number, wave_number_tol)

TrackCall(omega) ==
    [pc |-> "call", omega |-> omega, phase_velocity |-> <<>>, i |-> 0,
     calls |-> <<>>]

\* mutant: a failure ends the loop
TrackAbortOnFailure(s, out) ==
    [s EXCEPT !.i = Len(s.omega), !.calls = Append(s.calls, out)]

\* lines 87-88: the error is printed
TrackOnFailure(s, out) ==
    [s EXCEPT !.i = s.i + 1, !.calls = Append(s.calls, out)]

\* mutant: the phase velocity overwrites the frequency it was computed from
TrackOnRootInPlace(s, out) ==
    [s EXCEPT !.omega[s.i + 1] = FDiv(At(s.omega, s.i), out[1]),
              !.i = s.i + 1, !.calls = Append(s.calls, out)]

\* lines 89-92
TrackOnRoot(s, out) ==
    [s EXCEPT !.phase_velocity[s.i + 1] = FDiv(At(s.omega, s.i), out[1]),
              !.i = s.i + 1, !.calls = Append(s.calls, out)]

\* lines 75-78
TrackEnter ==
    /\ rt.pc = "call"
    /\ rt' = [rt EXCEPT !.pc = "loop",
                        !.phase_velocity = [k \in 1..Len(rt.omega) |-> Zero],
                        !.i = 0]
    /\ UNCHANGED <<il, br, lin, layer, sd, rn>>

\* lines 80-88
TrackBrentFailed ==
    /\ rt.pc = "loop"
    /\ rt.i < Len(rt.omega)
    /\ \E out \in TrackBrentOutcomes :
        /\ out[2] # NoErr
        /\ rt' = TrackOnFailure(rt, out)
    /\ UNCHANGED <<il, br, lin, layer, sd, rn>>

\* lines 80-92
TrackBrentFound ==
    /\ rt.pc = "loop"
    /\ rt.i < Len(rt.omega)
    /\ \E out \in TrackBrentOutcomes :
        /\ out[2] = NoErr
        /\ rt' = TrackOnRoot(rt, out)
    /\ UNCHANGED <<il, br, lin, layer, sd, rn>>

\* lines 80, 94
TrackReturn ==
    /\ rt.pc = "loop"
    /\ rt.i >= Len(rt.omega)
    /\ rt' = [rt EXCEPT !.pc = "done"]
    /\ UNCHANGED <<il, br, lin, layer, sd, rn>>

TrackNext ==
    \/ TrackEnter
    \/ TrackBrentFailed
    \/ TrackBrentFound
    \/ TrackReturn

InitTrack ==
    /\ il = ILIdle
    /\ br = BrentIdle
    /\ lin = LinspaceIdle
    /\ layer = LayerIdle
    /\ sd = SoilIdle
    /\ \E n \in 0..MaxOmega : rt = TrackCall(Linspace(Num(1), Num(n), n))
    /\ rn = RunnerIdle

SpecTrack == InitTrack /\ [][TrackNext]_vars

(***************************************************************************)
(* runner.Run: one producer, numWorkers workers reading the buffered       *)
(* channel jobs, and the progress reporter.  The discovered .yaml files    *)
(* are numbered 1..yamlFiles in the order of the walk.  critical_speed.Run *)
(* returns nil or an error, the choice is left open.                       *)
(***************************************************************************)
ErrWalkDir == "error walking through config directory"

ErrNoYamlFiles == "no YAML configuration files found in directory"

\* lines 84-91: the state at the call, before any goroutine is started
RunnerCall(numWorkers, yamlFiles, walkErr) ==
    [RunnerIdle EXCEPT !.pc = "spawn", !.numWorkers = numWorkers,
                       !.yamlFiles = yamlFiles, !.walkErr = walkErr,
                       !.received = [f \in 1..yamlFiles |-> <<>>]]

Workers == 1..Len(rn.worker)

\* line 94: range over a count that is zero or negative runs no iteration
SpawnMore(spawned, numWorkers) == spawned < numWorkers

\* mutant: the walk never counts as empty
NoYamlFilesNever(yamlFiles) == yamlFiles < 0

\* line 114
NoYamlFiles(yamlFiles) == yamlFiles = 0

\* mutant: the channel is closed one job early
AllSentEarly(sent, yamlFiles) == sent + 1 >= yamlFiles

\* lines 126-128: the range over yamlFiles is exhausted
AllSent(sent, yamlFiles) == sent >= yamlFiles

\* mutant: a failed configuration is not counted
ProcessedAfterOkOnly(count, failed) == IF failed THEN count ELSE count + 1

\* line 59: runs after the if of lines 55-57, whatever Run returned
ProcessedAfter(count, failed) == count + 1

\* lines 94-97
RunStartWorker ==
    /\ rn.pc = "spawn"
    /\ SpawnMore(Len(rn.worker), rn.numWorkers)
    /\ rn' = [rn EXCEPT !.wg = rn.wg + 1,
                        !.worker = Append(rn.worker, [pc |-> "recv", job |-> 0])]
    /\ UNCHANGED <<il, br, lin, layer, sd, rt>>

\* lines 100-113
RunWalkFailed ==
    /\ rn.pc = "spawn"
    /\ ~SpawnMore(Len(rn.worker), rn.numWorkers)
    /\ rn.walkErr
    /\ rn' = [rn EXCEPT !.pc = "done", !.err = ErrWalkDir]
    /\ UNCHANGED <<il, br, lin, layer, sd, rt>>

\* lines 100-116
RunNoYaml ==
    /\ rn.pc = "spawn"
    /\ ~SpawnMore(Len(rn.worker), rn.numWorkers)
    /\ ~rn.walkErr
    /\ NoYamlFiles(rn.yamlFiles)
    /\ rn' = [rn EXCEPT !.pc = "done", !.err = ErrNoYamlFiles]
    /\ UNCHANGED <<il, br, lin, layer, sd, rt>>

\* lines 100-123
RunStartReport ==
    /\ rn.pc = "spawn"
    /\ ~SpawnMore(Len(rn.worker), rn.numWorkers)
    /\ ~rn.walkErr
    /\ ~NoYamlFiles(rn.yamlFiles)
    /\ rn' = [rn EXCEPT !.pc = "send", !.reporter = "running"]
    /\ UNCHANGED <<il, br, lin, layer, sd, rt>>

\* lines 126-127: the send blocks while the buffer is full
RunSend ==
    /\ rn.pc = "send"
    /\ ~AllSent(rn.sent, rn.yamlFiles)
    /\ Len(rn.jobs) < JobCap
    /\ rn' = [rn EXCEPT !.jobs = Append(rn.jobs, rn.sent + 1),
                        !.sent = rn.sent + 1]
    /\ UNCHANGED <<il, br, lin, layer, sd, rt>>

\* lines 126-129
RunCloseJobs ==
    /\ rn.pc = "send"
    /\ AllSent(rn.sent, rn.yamlFiles)
    /\ rn' = [rn EXCEPT !.pc = "wait", !.jobsClosed = rn.jobsClosed + 1]
    /\ UNCHANGED <<il, br, lin, layer, sd, rt>>

\* lines 131-135: wg.Wait returns when the counter is zero
RunFinish ==
    /\ rn.pc = "wait"
    /\ rn.wg = 0
    /\ rn' = [rn EXCEPT !.pc = "done", !.doneClosed = rn.doneClosed + 1,
                        !.err = NoErr]
    /\ UNCHANGED <<il, br, lin, layer, sd, rt>>

\* line 52: a receive takes the head of the buffer
WorkerReceive(k) ==
    /\ rn.worker[k].pc = "recv"
    /\ rn.jobs # <<>>
    /\ rn' = [rn EXCEPT !.jobs = Tail(rn.jobs),
                        !.worker[k] = [pc |-> "run", job |-> Head(rn.jobs)],
                        !.received[Head(rn.jobs)] =
                            Append(rn.received[Head(rn.jobs)], k)]
    /\ UNCHANGED <<il, br, lin, layer, sd, rt>>

\* lines 55-59, critical_speed.Run returned nil
WorkerRunOk(k) ==
    /\ rn.worker[k].pc = "run"
    /\ rn' = [rn EXCEPT !.worker[k].pc = "recv",
                        !.processedCount = ProcessedAfter(rn.processedCount, FALSE)]
    /\ UNCHANGED <<il, br, lin, layer, sd, rt>>

\* lines 55-59, critical_speed.Run returned an error, which is logged
WorkerRunFailed(k) ==
    /\ rn.worker[k].pc = "run"
    /\ rn' = [rn EXCEPT !.worker[k].pc = "recv",
                        !.failed = rn.failed \cup {rn.worker[k].job},
                        !.processedCount = ProcessedAfter(rn.processedCount, TRUE)]
    /\ UNCHANGED <<il, br, lin, layer, sd, rt>>

\* lines 50, 52, 60-61: the range ends on a closed and drained channel
WorkerExit(k) ==
    /\ rn.worker[k].pc = "recv"
    /\ rn.jobs = <<>>
    /\ rn.jobsClosed > 0
    /\ rn' = [rn EXCEPT !.worker[k].pc = "exit", !.wg = rn.wg - 1]
    /\ UNCHANGED <<il, br, lin, layer, sd, rt>>

WorkerStep(k) ==
    \/ WorkerReceive(k)
    \/ WorkerRunOk(k)
    \/ WorkerRunFailed(k)
    \/ WorkerExit(k)

\* lines 70-76: a tick prints the count read
ReporterTick ==
    /\ rn.reporter = "running"
    /\ rn.shown # rn.processedCount
    /\ rn' = [rn EXCEPT !.shown = rn.processedCount]
    /\ UNCHANGED <<il, br, lin, layer, sd, rt>>

\* lines 77-78
ReporterExit ==
    /\ rn.reporter = "running"
    /\ rn.doneClosed > 0
    /\ rn' = [rn EXCEPT !.reporter = "exit"]
    /\ UNCHANGED <<il, br, lin, layer, sd, rt>>

RunStep ==
    \/ RunStartWorker
    \/ RunWalkFailed
    \/ RunNoYaml
    \/ RunStartReport
    \/ RunSend
    \/ RunCloseJobs
    \/ RunFinish

ReporterStep == ReporterTick \/ ReporterExit

RunnerNext ==
    \/ RunStep
    \/ \E k \in Workers : WorkerStep(k)
    \/ ReporterStep

InitRunner ==
    /\ il = ILIdle
    /\ br = BrentIdle
    /\ lin = LinspaceIdle
    /\ layer = LayerIdle
    /\ sd = SoilIdle
    /\ rt = TrackIdle
    /\ \E w \in (-NegWorkers)..MaxWorkers, n \in 0..MaxFiles, e \in BOOLEAN :
        rn = RunnerCall(w, n, e)

SpecRunner == InitRunner /\ [][RunnerNext]_vars

\* every goroutine that can run does run
SpecRunnerFair ==
    /\ InitRunner
    /\ [][RunnerNext]_vars
    /\ WF_vars(RunStep)
    /\ \A k \in 1..MaxWorkers : WF_vars(k \in Workers /\ WorkerStep(k))
    /\ WF_vars(ReporterStep)

Init ==
    \/ InitIL \/ InitBrent \/ InitLinspace \/ InitLayer \/ InitSoil
    \/ InitTrack \/ InitRunner

Next ==
    \/ ILNext \/ BrentNext \/ LinspaceNext \/ LayerNext \/ SoilNext
    \/ TrackNext \/ RunnerNext

Spec == Init /\ [][Next]_vars

(***************************************************************************)
(* What InterceptLines is to return, stated over the arguments of the      *)
(* call.  Indices are those of the Go slices (from 0).                     *)
(***************************************************************************)
ILDone == il.pc = "done"

ILWellFormed ==
    Len(il.x) >= 2 /\ Len(il.y1) = Len(il.x) /\ Len(il.y2) = Len(il.x)

ILSegments == 1..(Len(il.x) - 1)

\* y1[k] - y2[k]
ILDiff(k) == FSub(At(il.y1, k), At(il.y2, k))

\* both curves are defined at sample k
ILDefined(k) == ~IsNaN(At(il.y1, k)) /\ ~IsNaN(At(il.y2, k))

\* segment k holds a crossing or a touch: diff_k * diff_{k-1} <= 0
ILQualifies(k) == FLe(FMul(ILDiff(k), ILDiff(k - 1)), Zero)

ILSomeQualifies == \E k \in ILSegments : ILQualifies(k)

ILFirst == CHOOSE k \in ILSegments : ILQualifies(k) /\ \A j \in 1..(k - 1) : ~ILQualifies(j)

\* v lies in the closed interval with ends lo and hi
Between(v, lo, hi) == (FLe(lo, v) /\ FLe(v, hi)) \/ (FLe(hi, v) /\ FLe(v, lo))

\* v lies in the open interval with ends lo and hi
StrictlyBetween(v, lo, hi) == (FLt(lo, v) /\ FLt(v, hi)) \/ (FLt(hi, v) /\ FLt(v, lo))

\* C1: a well-formed call succeeds exactly when some segment qualifies, and
\* then the scan stopped in the first qualifying segment (no later segment
\* was read) and the returned point lies in that segment: its x between
\* x[i-1] and x[i], its y between y1[i-1] and y1[i].
C1_FirstCrossing ==
    (ILDone /\ ILWellFormed) =>
        /\ (il.err = NoErr) <=> ILSomeQualifies
        /\ ILSomeQualifies =>
            /\ il.i = ILFirst
            /\ Between(il.interceptX, At(il.x, ILFirst - 1), At(il.x, ILFirst))
            /\ Between(il.interceptY, At(il.y1, ILFirst - 1), At(il.y1, ILFirst))

\* the first of two qualifying segments was returned
C1_Witness ==
    /\ ILDone
    /\ ILWellFormed
    /\ il.err = NoErr
    /\ il.i = 1
    /\ \E k \in ILSegments : k > 1 /\ ILQualifies(k)
    /\ StrictlyBetween(il.interceptX, At(il.x, 0), At(il.x, 1))

\* the curves touch at sample j and y1 stays on one side of y2 elsewhere
ILTangentAt(j) ==
    /\ \A k \in 0..(Len(il.x) - 1) : ILDefined(k)
    /\ FEq(ILDiff(j), Zero)
    /\ \/ \A k \in (0..(Len(il.x) - 1)) \ {j} : FGt(ILDiff(k), Zero)
       \/ \A k \in (0..(Len(il.x) - 1)) \ {j} : FLt(ILDiff(k), Zero)

ILFraction(k) ==
    FDiv(FAbs(ILDiff(k - 1)), FAdd(FAbs(ILDiff(k)), FAbs(ILDiff(k - 1))))

\* the first qualifying segment has a non-zero difference at both ends
ILInterpolates ==
    /\ ILSomeQualifies
    /\ FNe(ILDiff(ILFirst), Zero)
    /\ FNe(ILDiff(ILFirst - 1), Zero)

C4_MalformedInput ==
    ILDone =>
        /\ (Len(il.x) < 2 \/ Len(il.y1) < 2 \/ Len(il.y2) < 2) =>
            /\ il.err = ErrTooShort
            /\ il.interceptX = Zero /\ il.interceptY = Zero
            /\ il.i = 0
        /\ (/\ Len(il.x) >= 2 /\ Len(il.y1) >= 2 /\ Len(il.y2) >= 2
            /\ (Len(il.y1) # Len(il.x) \/ Len(il.y2) # Len(il.x))) =>
            /\ il.err = ErrLength
            /\ il.interceptX = Zero /\ il.interceptY = Zero
            /\ il.i = 0
        /\ ILWellFormed => il.err \notin {ErrTooShort, ErrLength}

\* too short and of different lengths at once: the too-short error wins
C4_Witness ==
    /\ ILDone
    /\ Len(il.y2) < 2
    /\ Len(il.x) >= 2
    /\ Len(il.y1) > Len(il.x)
    /\ il.err = ErrTooShort

\* the difference has one and the same value at every sample
ILConstantDiff ==
    \A j, k \in 0..(Len(il.x) - 1) : FEq(ILDiff(j), ILDiff(k))

ILNoNaN == \A k \in 0..(Len(il.x) - 1) : ILDefined(k)

ILTouchesNaN(k) == ~ILDefined(k) \/ ~ILDefined(k - 1)

\* the differences at both ends of segment k are numbers of product <= 0
ILCleanCrossing(k) ==
    /\ ~ILTouchesNaN(k)
    /\ ILDiff(k)[1] * ILDiff(k - 1)[1] <= 0

\* C6: a segment with a NaN sample at either end is never the one returned
\* (neither as a crossing nor as an exact match), and the scan goes on past
\* it: the call returns the first segment whose two ends are defined and
\* qualify, and fails only when there is none.
C6_NaNExcluded ==
    (ILDone /\ ILWellFormed) =>
        /\ il.err = NoErr =>
            /\ ~ILTouchesNaN(il.i)
            /\ ~IsNaN(il.interceptX)
            /\ ~IsNaN(il.interceptY)
        /\ \A k \in ILSegments :
            (ILCleanCrossing(k) /\ \A j \in 1..(k - 1) : ~ILCleanCrossing(j)) =>
                il.err = NoErr /\ il.i = k
        /\ (\A k \in ILSegments : ~ILCleanCrossing(k)) => il.err # NoErr

\* the scan passed a segment with an undefined sample that would have
\* qualified with NaN read as 0, and returned the next one
C6_Witness ==
    /\ ILDone
    /\ ILWellFormed
    /\ il.err = NoErr
    /\ il.i = 2
    /\ IsNaN(At(il.y2, 0))
    /\ FLe(At(il.y1, 0), Zero)
    /\ FGt(At(il.y1, 1), At(il.y2, 1))

(***************************************************************************)
(* What Brent is to return, stated over the arguments of the call.         *)
(***************************************************************************)
BrentDone == br.pc = "done"

BrentStarted == br.pc \in {"loop", "done"}

\* f(a) and f(b) at the bounds as passed
BrentFA0 == CHOOSE v \in FVals : <<br.a0, v>> \in br.fseen

BrentFB0 == CHOOSE v \in FVals : <<br.b0, v>> \in br.fseen

\* two numbers, both positive or both negative
SameSign(p, q) == (FGt(p, Zero) /\ FGt(q, Zero)) \/ (FLt(p, Zero) /\ FLt(q, Zero))

\* C7: when f(a) and f(b) have the same sign Brent returns at once with
\* the error "root not bracketed": the loop is never entered and f is
\* evaluated nowhere else.
C7_NotBracketed ==
    (BrentStarted /\ SameSign(BrentFA0, BrentFB0)) =>
        /\ br.pc = "done"
        /\ br.err = ErrNotBracketed
        /\ br.root = Zero
        /\ br.iter = 0
        /\ br.fseen = {<<br.a0, BrentFA0>>, <<br.b0, BrentFB0>>}

\* two different bounds with positive f at both were rejected
C7_Witness ==
    /\ BrentDone
    /\ br.a0 # br.b0
    /\ FGt(BrentFA0, Zero)
    /\ FGt(BrentFB0, BrentFA0)
    /\ br.err = ErrNotBracketed

\* C8: when f(a) = 0 or f(b) = 0 exactly, Brent returns that bound (a,
\* respectively b) with a nil error, at once and without iterating.
C8_EndpointRoot ==
    (BrentStarted /\ br.a0 # br.b0) =>
        /\ FEq(BrentFA0, Zero) =>
            br.pc = "done" /\ br.err = NoErr /\ br.root = br.a0 /\ br.iter = 0
        /\ (~FEq(BrentFA0, Zero) /\ FEq(BrentFB0, Zero)) =>
            br.pc = "done" /\ br.err = NoErr /\ br.root = br.b0 /\ br.iter = 0

\* a call that has not returned has a next step to take
BrentCanStep ==
    /\ br.pc = "call" =>
        \E va, vb \in FVals :
            /\ FValueAt(br, br.a, va)
            /\ FValueAt([br EXCEPT !.fseen = {<<br.a, va>>}], br.b, vb)
    /\ br.pc = "loop" =>
        \/ br.iter >= max_nb_iterations
        \/ Converged(br)
        \/ \E v \in FVals : FValueAt(br, NewB(br, StepDE(br)[1]), v)

\* C9: Brent always terminates: a call that has not returned can always
\* take its next step, every pass of the loop body adds one to iter, iter
\* never exceeds max_nb_iterations (1000), and a loop that ends without
\* convergence returns (0, "max iterations 1000 reached").
C9_Terminates ==
    /\ [](/\ BrentCanStep
          /\ BrentStarted =>
              /\ br.iter <= max_nb_iterations
              /\ (BrentDone /\ br.iter = max_nb_iterations) =>
                  br.err = ErrMaxIterations /\ br.root = Zero
              /\ (BrentDone /\ br.err = ErrMaxIterations) =>
                  br.iter = max_nb_iterations)
    /\ [][(br.pc = "loop" /\ br'.pc = "loop") => br'.iter = br.iter + 1]_vars
    /\ [][(br.pc = "loop" /\ br'.pc = "done") => br'.iter = br.iter]_vars

\* the loop ran out of iterations and the call returned the error
C9_Witness ==
    /\ BrentDone
    /\ br.err = ErrMaxIterations
    /\ br.iter = max_nb_iterations
    /\ br.root = Zero

\* both bounds of the call are numbers
BrentFiniteBounds == IsFinite(br.a0) /\ IsFinite(br.b0)

\* C10: a root returned with a nil error lies in the closed interval
\* between the bounds a and b of the call, and every pass of the loop moves
\* b to a point of the closed interval between the current b and the
\* bracket point c (the bounds being numbers).
C10_StaysInBracket ==
    /\ []((BrentDone /\ br.err = NoErr /\ BrentFiniteBounds) =>
            Between(br.root, br.a0, br.b0))
    /\ [][(br.pc = "loop" /\ br'.pc = "loop" /\ BrentFiniteBounds) =>
            Between(br'.b, br.b, br.c)]_vars

\* a root found after an accepted interpolation and two more passes
C10_Witness ==
    /\ BrentDone
    /\ br.err = NoErr
    /\ BrentFiniteBounds
    /\ br.iter >= 3
    /\ br.d # br.e
    /\ StrictlyBetween(br.root, br.a0, br.b0)

\* the value of f recorded at the current estimate b is exactly zero
BrentZeroAtB == \E pt \in br.fseen : pt[1] = br.b /\ FEq(pt[2], Zero)

\* half the distance from b to the bracket point c is at most
\* delta = 2*eps*|b| + tol
BrentWithinDelta ==
    FLe(FAbs(FDiv(FSub(br.c, br.b), Num(2))),
        FAdd(FMul(Num(2), FMul(eps, FAbs(br.b))), br.tol))

\* C11: whenever the loop of Brent returns successfully, it returns the
\* current b, and f(b) = 0 or |(c-b)/2| <= delta with
\* delta = 2*eps*|b| + tol; the loop never returns success where neither
\* holds.
C11_ConvergedOnReturn ==
    [][(br.pc = "loop" /\ br'.pc = "done" /\ br'.err = NoErr) =>
            /\ br'.root = br.b
            /\ BrentZeroAtB \/ BrentWithinDelta]_vars

\* the loop returned a b that is not an exact zero of f, after at least
\* one pass, with the bracket point c on the other side
C11_Witness ==
    /\ BrentDone
    /\ br.err = NoErr
    /\ br.iter >= 1
    /\ ~BrentZeroAtB
    /\ br.b # br.c
    /\ BrentWithinDelta

(***************************************************************************)
(* Linspace: the claims.                                                   *)
(***************************************************************************)
LinspaceDone == lin.pc = "done"

\* (end - start)/(n - 1)
LinSpacing == FDiv(FSub(lin.end, lin.start), Num(lin.n - 1))

C18_Degenerate ==
    LinspaceDone =>
        /\ lin.n <= 0 => lin.result = <<>>
        /\ lin.n = 1 => lin.result = <<lin.start>>

\* one sample was asked for with end different from start
C18_Witness ==
    /\ LinspaceDone
    /\ lin.n = 1
    /\ lin.end # lin.start
    /\ lin.result = <<lin.start>>

LinStrictlyIncreasing ==
    \A i \in 0..(lin.n - 2) : FLt(At(lin.result, i), At(lin.result, i + 1))

LinStrictlyDecreasing ==
    \A i \in 0..(lin.n - 2) : FGt(At(lin.result, i), At(lin.result, i + 1))

LayerPhysical ==
    /\ FGt(layer.Density, Zero)
    /\ FGt(layer.YoungsModulus, Zero)
    /\ FGt(layer.PoissonRatio, Num(-1))
    /\ FLt(layer.PoissonRatio, Rat(1, 2))

SoilScanned == sd.pc \in {"omega", "done"} /\ sd.i >= 1 /\ sd.layers # <<>>

OppositeSign(p, q) ==
    (FLt(p, Zero) /\ FGt(q, Zero)) \/ (FGt(p, Zero) /\ FLt(q, Zero))

\* the grid indices j whose pair (j-1, j) has determinants of opposite sign
SoilSignChanges ==
    {j \in 1..(Len(sd.det) - 1) : OppositeSign(At(sd.det, j - 1), At(sd.det, j))}

SoilFirstSignChange ==
    CHOOSE j \in SoilSignChanges : \A k \in SoilSignChanges : j <= k

\* C14: the value for omega[i] is the midpoint (c_list[j-1] + c_list[j])/2
\* of the lowest-index pair of consecutive grid velocities whose
\* determinants have opposite sign, and the scan stops there: nothing
\* above index j is evaluated.  A value is reported for no other reason.
C14_FundamentalMode ==
    /\ (SoilScanned /\ SoilSignChanges # {}) =>
        LET j == SoilFirstSignChange
        IN  /\ Len(sd.det) = j + 1
            /\ At(sd.phase_speed, sd.i - 1) =
                  FDiv(FAdd(At(sd.c_list, j - 1), At(sd.c_list, j)), Num(2))
    /\ (SoilScanned /\ ~IsNaN(At(sd.phase_speed, sd.i - 1))) =>
        SoilSignChanges # {}

\* the first sign change was at the first pair, with grid points left
\* above it
C14_Witness ==
    /\ SoilScanned
    /\ SoilSignChanges = {1}
    /\ Len(sd.c_list) > 2
    /\ IsFinite(At(sd.phase_speed, sd.i - 1))

SoilSpeeds == {sd.layers[k].ShearWaveSpeed : k \in 1..Len(sd.layers)}

SoilSlowest == CHOOSE s \in SoilSpeeds : \A u \in SoilSpeeds : FLe(s, u)

SoilFastest == CHOOSE s \in SoilSpeeds : \A u \in SoilSpeeds : FGe(s, u)

\* C16: every entry of the returned curve that is not NaN lies in
\* [c_min, c_max], c_min = 0.6 * the least and c_max = 1.6 * the greatest
\* shear wave speed of the layers.
C16_WithinSearchBand ==
    (sd.pc = "done" /\ sd.layers # <<>>) =>
        \A k \in 0..(Len(sd.phase_speed) - 1) :
            ~IsNaN(At(sd.phase_speed, k)) =>
                /\ FLe(FMul(Rat(6, 10), SoilSlowest), At(sd.phase_speed, k))
                /\ FLe(At(sd.phase_speed, k), FMul(Rat(16, 10), SoilFastest))

\* a curve with a defined entry for a profile whose slowest layer is not
\* the first
C16_Witness ==
    /\ sd.pc = "done"
    /\ Len(sd.layers) = 2
    /\ FLt(sd.layers[2].ShearWaveSpeed, sd.layers[1].ShearWaveSpeed)
    /\ \E k \in 0..(Len(sd.phase_speed) - 1) : IsFinite(At(sd.phase_speed, k))

(***************************************************************************)
(* RailTrackDispersion: the claims.                                        *)
(***************************************************************************)
TrackDone == rt.pc = "done"

\* Brent returned an error for omega[k]
TrackFailedAt(k) == At(rt.calls, k)[2] # NoErr

\* C12: RailTrackDispersion never aborts on a failure of the root finder:
\* Brent is called for every frequency, the curve returned has exactly
\* len(omega) entries, entry i is omega[i] / (the root found for omega[i])
\* whatever happened at the other indices, and a step of the loop changes
\* no entry but its own, a failing step none.
C12_FailureDoesNotAbort ==
    /\ [](TrackDone =>
            /\ Len(rt.phase_velocity) = Len(rt.omega)
            /\ Len(rt.calls) = Len(rt.omega)
            /\ \A k \in 0..(Len(rt.omega) - 1) :
                ~TrackFailedAt(k) =>
                    At(rt.phase_velocity, k) =
                        FDiv(At(rt.omega, k), At(rt.calls, k)[1]))
    /\ [][(rt.pc = "loop" /\ rt'.pc = "loop") =>
            /\ rt'.i = rt.i + 1
            /\ \A k \in 0..(Len(rt.omega) - 1) :
                k # rt.i => At(rt'.phase_velocity, k) = At(rt.phase_velocity, k)
            /\ At(rt'.calls, rt.i)[2] # NoErr =>
                rt'.phase_velocity = rt.phase_velocity]_vars

\* the root finder failed for the first frequency and found a root for
\* the second
C12_Witness ==
    /\ TrackDone
    /\ Len(rt.omega) = 2
    /\ TrackFailedAt(0)
    /\ ~TrackFailedAt(1)
    /\ At(rt.phase_velocity, 1) = FDiv(At(rt.omega, 1), At(rt.calls, 1)[1])

\* C13: when the root finder fails for omega[i], phase_velocity[i] is
\* recorded as NaN, never as the number 0; a defined entry is omega[i]/k
\* for the wavenumber k that Brent returned.
C13_FailureIsUndefined ==
    TrackDone =>
        \A k \in 0..(Len(rt.omega) - 1) :
            IF TrackFailedAt(k)
            THEN IsNaN(At(rt.phase_velocity, k))
            ELSE At(rt.phase_velocity, k) =
                     FDiv(At(rt.omega, k), At(rt.calls, k)[1])

(***************************************************************************)
(* Brent: the invariants of the loop.                                      *)
(***************************************************************************)
\* every value f has returned is a number
BrentNumericF == \A pt \in br.fseen : IsFinite(pt[2])

\* C23: in every loop state b is the best estimate and a the one before:
\* |f(b)| <= |f(a)|, not only after the initial swap (stated for numeric
\* bounds and an f returning numbers only).
C23_BestEstimate ==
    (br.pc = "loop" /\ BrentFiniteBounds /\ BrentNumericF) =>
        FLe(FAbs(br.fb), FAbs(br.fa))

\* C24: the bracket is preserved by every iteration: in every loop state
\* f(b) = 0 or f(b) and f(c) have strictly opposite signs, and a pass of
\* the loop rebinds c to the previous estimate exactly when the new f(b)
\* has the opposite sign to the previous one, leaving it unchanged
\* otherwise (f returning numbers only).
C24_BracketPreserved ==
    /\ []((br.pc = "loop" /\ BrentNumericF) =>
            FEq(br.fb, Zero) \/ OppositeSign(br.fb, br.fc))
    /\ [][(br.pc = "loop" /\ br'.pc = "loop" /\ BrentNumericF') =>
            IF OppositeSign(br.fb, br'.fb)
            THEN br'.c = br.b /\ br'.fc = br.fb
            ELSE br'.c = br.c /\ br'.fc = br.fc]_vars

\* after a pass that rebound c and a pass that left it, the bracket holds
\* between two points that are not the bounds of the call
C24_Witness ==
    /\ br.pc = "loop"
    /\ BrentNumericF
    /\ br.iter >= 2
    /\ br.c # br.a
    /\ br.c \notin {br.a0, br.b0}
    /\ OppositeSign(br.fb, br.fc)

(***************************************************************************)
(* InterceptLines: the returned point is the first coincidence             *)
(***************************************************************************)

\* x grows from sample to sample
ILIncreasing == \A k \in ILSegments : FLt(At(il.x, k - 1), At(il.x, k))

\* C26: on success, with increasing x, no sample at which the curves
\* coincide lies to the left of the returned interceptX, also when the
\* curves coincide at both x[0] and x[1].
C26_NoEarlierCoincidence ==
    (ILDone /\ ILWellFormed /\ ILIncreasing /\ il.err = NoErr) =>
        \A j \in 0..(Len(il.x) - 1) :
            FEq(At(il.y1, j), At(il.y2, j)) => ~FLt(At(il.x, j), il.interceptX)

(***************************************************************************)
(* SoilDispersion: a sign change anywhere on the grid is reported          *)
(***************************************************************************)

\* every determinant evaluated for the last frequency is a number
SoilNumericDet == \A k \in 0..(Len(sd.det) - 1) : ~IsNaN(At(sd.det, k))

\* C27: when the determinants at two grid velocities c_list[p], c_list[q],
\* p < q, have strictly opposite signs, the entry of that frequency is
\* defined and lies between c_list[0] and c_list[q], also when the sign
\* changes through a determinant of exactly 0 at a grid point in between
\* (stated for determinants that are all numbers).
C27_SignChangeDetected ==
    (SoilScanned /\ SoilNumericDet) =>
        \A p, q \in 0..(Len(sd.det) - 1) :
            (p < q /\ OppositeSign(At(sd.det, p), At(sd.det, q))) =>
                /\ ~IsNaN(At(sd.phase_speed, sd.i - 1))
                /\ Between(At(sd.phase_speed, sd.i - 1),
                           At(sd.c_list, 0), At(sd.c_list, q))

(***************************************************************************)
(* runner.Run: what the batch runner guarantees                            *)
(***************************************************************************)
RunnerDone == rn.pc = "done"

RunnerFiles == 1..rn.yamlFiles

C22_NoYamlFiles ==
    (~rn.walkErr /\ rn.yamlFiles = 0) =>
        /\ rn.sent = 0
        /\ rn.jobs = <<>>
        /\ \A k \in Workers : rn.worker[k].pc # "run"
        /\ rn.processedCount = 0
        /\ RunnerDone => rn.err = ErrNoYamlFiles

C22_Witness ==
    /\ RunnerDone
    /\ ~rn.walkErr
    /\ rn.yamlFiles = 0
    /\ rn.numWorkers >= 2
    /\ Len(rn.worker) = rn.numWorkers
    /\ rn.err = ErrNoYamlFiles

\* C28: Run eventually returns, for every numWorkers (zero and negative
\* included) and every number of files (more than the buffer holds
\* included).
C28_EventuallyReturns == <>RunnerDone

\* C29: whenever Run has returned, with nil or with an error, every worker
\* it started has terminated.
C29_WorkersTerminated ==
    RunnerDone => \A k \in Workers : rn.worker[k].pc = "exit"

====
